---- MODULE Spec2Model ----
(***************************************************************************)
(* Model of generate.py (gevico/gtoc-forum): the batch pass that turns a   *)
(* tree  docs/<year>/index.md, docs/<year>/<section>/index.md  into one    *)
(* HTML page.                                                              *)
(*                                                                         *)
(* Text is modelled as sequences of characters.  A character is a string   *)
(* naming one code point: "a", "#", " ", ...; "nl" is U+000A (line feed)   *)
(* and "sup2" is U+00B2 (SUPERSCRIPT TWO).  A file name is a sequence of   *)
(* characters, a file body is a sequence of lines as readlines() yields    *)
(* them.  A year folder path os.path.join(INPUT_DIR, name) is represented  *)
(* by its basename: listdir names hold no separator, so basename(join(d,   *)
(* name)) = name.                                                          *)
(***************************************************************************)
EXTENDS Naturals, Sequences, FiniteSets, TLC

VARIABLES
    fs,                 \* the input tree under INPUT_DIR (read only)
    pc,                 \* position of main()
    year_folders,       \* main: result of get_year_folders
    yi,                 \* main: index of the year loop (line 847)
    year_data,          \* main: year -> [tab_name, subfolder_order, cards]
    total_topics,       \* main: running sum of count_topics_in_md
    all_subfolders,     \* main: working list of line 861
    ordered_subfolders, \* main: resolved section order of line 867
    si,                 \* main: index of the section loop (line 879)
    stdout,             \* everything print() wrote, in order
    html_content,       \* main: result of generate_html
    output,             \* state of the file OUTPUT_HTML
    card_from,          \* history: year -> subfolder each card was parsed from
    resolved            \* history: year -> its ordered_subfolders of line 876

vars == <<fs, pc, year_folders, yi, year_data, total_topics, all_subfolders,
          ordered_subfolders, si, stdout, html_content, output, card_from,
          resolved>>

-----------------------------------------------------------------------------
(* Characters and strings                                                  *)

\* The characters in use, in ascending code point order.
Alphabet ==
    << "nl", " ", "#", "(", ")", "-", ".", "0", "1", "7", "9", "T", "[", "]",
       "a", "b", "d", "e", "h", "i", "m", "n", "x", "y", "z", "sup2" >>

Ord(c) == CHOOSE i \in 1..Len(Alphabet) : Alphabet[i] = c

\* Python's str < str: lexicographic by code point, a proper prefix is smaller.
RECURSIVE StrLess(_, _)
StrLess(s, t) ==
    IF t = <<>> THEN FALSE
    ELSE IF s = <<>> THEN TRUE
    ELSE IF Head(s) = Head(t) THEN StrLess(Tail(s), Tail(t))
    ELSE Ord(Head(s)) < Ord(Head(t))

\* Characters for which str.isspace() is true.
Whitespace == {" ", "nl"}

\* Characters for which str.isdigit() is true: the decimal digits and the
\* characters of Unicode Numeric_Type=Digit such as U+00B2.
DecimalDigits == {"0", "1", "7", "9"}
UnicodeDigits == DecimalDigits \cup {"sup2"}

RECURSIVE lstrip(_, _)
lstrip(s, chars) ==
    IF s # <<>> /\ Head(s) \in chars THEN lstrip(Tail(s), chars) ELSE s

RECURSIVE rstrip(_, _)
rstrip(s, chars) ==
    IF s # <<>> /\ s[Len(s)] \in chars
    THEN rstrip(SubSeq(s, 1, Len(s) - 1), chars) ELSE s

\* str.strip(): leading and trailing whitespace removed.
strip(s) == rstrip(lstrip(s, Whitespace), Whitespace)

startswith(s, prefix) ==
    Len(s) >= Len(prefix) /\ SubSeq(s, 1, Len(prefix)) = prefix

\* str.isdigit(): non-empty and every character is a digit character.
isdigit(name) == name # <<>> /\ \A i \in 1..Len(name) : name[i] \in UnicodeDigits

\* sorted(seq, reverse=rev) on strings: stable, so it is an insertion sort
\* that places an element after the elements it does not precede.
Before(x, y, rev) == IF rev THEN StrLess(y, x) ELSE StrLess(x, y)

RECURSIVE Insert(_, _, _)
Insert(x, s, rev) ==
    IF s = <<>> THEN <<x>>
    ELSE IF Before(x, Head(s), rev) THEN <<x>> \o s
    ELSE <<Head(s)>> \o Insert(x, Tail(s), rev)

RECURSIVE SortFrom(_, _, _)
SortFrom(done, rest, rev) ==
    IF rest = <<>> THEN done
    ELSE SortFrom(Insert(Head(rest), done, rev), Tail(rest), rev)

sorted(seq, rev) == SortFrom(<<>>, seq, rev)

\* list(dict.fromkeys(seq)): first occurrences, in order.
RECURSIVE DedupFrom(_, _)
DedupFrom(done, rest) ==
    IF rest = <<>> THEN done
    ELSE IF \E i \in 1..Len(done) : done[i] = Head(rest)
         THEN DedupFrom(done, Tail(rest))
         ELSE DedupFrom(Append(done, Head(rest)), Tail(rest))

\* A faulty de-duplication: the last occurrence of each element is kept.
RECURSIVE Reverse(_)
Reverse(s) == IF s = <<>> THEN <<>> ELSE Append(Reverse(Tail(s)), Head(s))

dict_fromkeys_last(seq) == Reverse(DedupFrom(<<>>, Reverse(seq)))

dict_fromkeys(seq) == DedupFrom(<<>>, seq)

Range(s) == {s[i] : i \in 1..Len(s)}

RECURSIVE Perms(_)
Perms(S) ==
    IF S = {} THEN {<<>>}
    ELSE UNION {{<<x>> \o p : p \in Perms(S \ {x})} : x \in S}

Min(S) == CHOOSE x \in S : \A y \in S : x <= y

\* F(x), with x computed once before F is applied to it.
Once(F(_), x) == CHOOSE r \in {F(v) : v \in {x}} : TRUE

-----------------------------------------------------------------------------
(* Files and messages                                                      *)

\* A file as the program sees it: absent, present but failing to open or
\* decode (err names the exception), or readable with the given lines.
Absent == [kind |-> "absent", err |-> "", lines |-> <<>>]
Unreadable(e) == [kind |-> "unreadable", err |-> e, lines |-> <<>>]
File(ls) == [kind |-> "file", err |-> "", lines |-> ls]

\* A faulty existence test: every path is taken to exist.
exists_always(f) == TRUE

\* os.path.exists(path)
exists(f) == f.kind # "absent"

\* open(path) and f.readlines() succeed; otherwise str(e) of what they raise.
readable(f) == f.kind = "file"
open_error(f) == IF f.kind = "absent" THEN "FileNotFoundError" ELSE f.err

\* One print() call.  msg names the statement, the other fields are the
\* values it interpolates (empty where the statement has none).
Msg(m, year, sf, detail, text, order, n) ==
    [msg |-> m, year |-> year, sf |-> sf, detail |-> detail, text |-> text,
     order |-> order, n |-> n]

INDEX_MD == <<"i", "n", "d", "e", "x", ".", "m", "d">>

-----------------------------------------------------------------------------
(* ORDER_LIST_PATTERN = ^\s*-\s*\[(.*?)\]\((.*?)\)\s*$                     *)

\* First index >= i of s that holds no whitespace (Len(s)+1 if none).
RECURSIVE SkipSpace(_, _)
SkipSpace(s, i) ==
    IF i <= Len(s) /\ s[i] \in Whitespace THEN SkipSpace(s, i + 1) ELSE i

\* "." matches any character except a line feed.
Dots(s, from, to) == \A i \in from..to : s[i] # "nl"

\* "\s*$" from index i on: only whitespace up to the end of the string.
SpaceToEnd(s, i) == \A j \in i..Len(s) : s[j] \in Whitespace

\* Closing positions k of group 2 when "](" ends at index j + 1.
CloseAt(s, j) ==
    {k \in (j + 2)..Len(s) :
        s[k] = ")" /\ Dots(s, j + 2, k - 1) /\ SpaceToEnd(s, k + 1)}

\* Positions j of "]" that end group 1, "[" being at index b.
LabelEndAt(s, b) ==
    {j \in (b + 1)..(Len(s) - 1) :
        /\ s[j] = "]"
        /\ s[j + 1] = "("
        /\ Dots(s, b + 1, j - 1)
        /\ CloseAt(s, j) # {}}

\* ORDER_LIST_PATTERN.match(s): [ok, label, target].  The lazy groups take
\* the shortest label, then the shortest target, for which the rest matches.
ORDER_LIST_PATTERN(s) ==
    LET d == SkipSpace(s, 1)
        b == SkipSpace(s, d + 1)
        nomatch == [ok |-> FALSE, label |-> <<>>, target |-> <<>>]
    IN  IF d > Len(s) \/ s[d] # "-" THEN nomatch
        ELSE IF b > Len(s) \/ s[b] # "[" THEN nomatch
        ELSE IF LabelEndAt(s, b) = {} THEN nomatch
        ELSE LET j == Min(LabelEndAt(s, b))
                 k == Min(CloseAt(s, j))
             IN  [ok |-> TRUE,
                  label |-> SubSeq(s, b + 1, j - 1),
                  target |-> SubSeq(s, j + 2, k - 1)]

-----------------------------------------------------------------------------
(* parse_year_index                                                        *)

\* The loop of lines 50-62 over the remaining lines: ScanYearLine is the
\* body for one line, ScanYearIndex the iteration.
RECURSIVE ScanYearIndex(_, _, _, _)

\* A faulty loop body: list lines count only once the heading was found.
ScanYearLine_late(rest, tab_name, title_found, order, line_stripped, match) ==
    IF ~title_found /\ startswith(line_stripped, <<"#", " ">>)
    THEN ScanYearIndex(rest, strip(lstrip(line_stripped, {"#", " "})), TRUE,
                       order)
    ELSE IF title_found /\ match.ok /\ strip(match.target) # <<>>
    THEN ScanYearIndex(rest, tab_name, title_found,
                       Append(order, strip(match.target)))
    ELSE ScanYearIndex(rest, tab_name, title_found, order)

ScanYearLine(rest, tab_name, title_found, order, line_stripped, match) ==
    IF ~title_found /\ startswith(line_stripped, <<"#", " ">>)
    THEN ScanYearIndex(rest, strip(lstrip(line_stripped, {"#", " "})), TRUE,
                       order)
    ELSE IF match.ok /\ strip(match.target) # <<>>
    THEN ScanYearIndex(rest, tab_name, title_found,
                       Append(order, strip(match.target)))
    ELSE ScanYearIndex(rest, tab_name, title_found, order)

ScanYearIndex(lines, tab_name, title_found, order) ==
    IF lines = <<>> THEN [tab_name |-> tab_name, order |-> order]
    ELSE Once(LAMBDA line_stripped :
                  Once(LAMBDA match :
                           ScanYearLine(Tail(lines), tab_name, title_found,
                                        order, line_stripped, match),
                       ORDER_LIST_PATTERN(line_stripped)),
              strip(Head(lines)))

\* A faulty parse_year_index: a file that cannot be read is reported like a
\* missing one, without the error.
parse_year_index_silent(year_name, f) ==
    IF ~exists(f) \/ ~readable(f)
    THEN [tab_name |-> year_name, subfolder_order |-> <<>>,
          out |-> <<Msg("no_year_index", year_name, <<>>, "", year_name, <<>>, 0)>>]
    ELSE Once(LAMBDA r :
                  [tab_name |-> r.tab_name,
                   subfolder_order |-> dict_fromkeys(r.order),
                   out |-> <<Msg("year_index_parsed", year_name, <<>>, "",
                                 r.tab_name, dict_fromkeys(r.order), 0)>>],
              ScanYearIndex(f.lines, year_name, FALSE, <<>>))

\* parse_year_index(year_folder), f being <year_folder>/index.md:
\* the returned pair and what it prints.
parse_year_index(year_name, f) ==
    IF ~exists(f)
    THEN [tab_name |-> year_name, subfolder_order |-> <<>>,
          out |-> <<Msg("no_year_index", year_name, <<>>, "", year_name, <<>>, 0)>>]
    ELSE IF ~readable(f)
    THEN [tab_name |-> year_name, subfolder_order |-> <<>>,
          out |-> <<Msg("year_index_failed", year_name, <<>>, open_error(f), year_name,
                        <<>>, 0)>>]
    ELSE Once(LAMBDA r :
                  Once(LAMBDA subfolder_order :
                           [tab_name |-> r.tab_name,
                            subfolder_order |-> subfolder_order,
                            out |-> <<Msg("year_index_parsed", year_name, <<>>, "",
                                          r.tab_name, subfolder_order, 0)>>],
                       dict_fromkeys(r.order)),
              ScanYearIndex(f.lines, year_name, FALSE, <<>>))

-----------------------------------------------------------------------------
(* count_topics_in_md, parse_md_file                                       *)

\* A faulty count: the line is not trimmed before the test.
RECURSIVE CountTopics_untrimmed(_)
CountTopics_untrimmed(lines) ==
    IF lines = <<>> THEN 0
    ELSE (IF startswith(Head(lines), <<"-", " ">>) THEN 1 ELSE 0)
         + CountTopics_untrimmed(Tail(lines))

\* The loop of lines 79-86: the lines that, trimmed, start with "- ".
RECURSIVE CountTopics(_)
CountTopics(lines) ==
    IF lines = <<>> THEN 0
    ELSE (IF startswith(strip(Head(lines)), <<"-", " ">>) THEN 1 ELSE 0)
         + CountTopics(Tail(lines))

\* count_topics_in_md(md_path): the count and what it prints; a failure to
\* read is caught inside and counts as 0.
count_topics_in_md(f) ==
    IF readable(f)
    THEN [count |-> CountTopics(f.lines), out |-> <<>>]
    ELSE [count |-> 0,
          out |-> <<Msg("count_failed", <<>>, <<>>, open_error(f), <<>>, <<>>, 0)>>]

\* A faulty variant of the loop of lines 100-106: every heading line is
\* taken as the title and left out of the content.
RECURSIVE ScanMd_every(_, _, _, _)
ScanMd_every(lines, title, title_found, content_lines) ==
    IF lines = <<>> THEN [title |-> title, content_lines |-> content_lines]
    ELSE Once(LAMBDA line_stripped :
                  IF startswith(line_stripped, <<"#", " ">>)
                  THEN ScanMd_every(Tail(lines),
                                    strip(lstrip(line_stripped, {"#", " "})),
                                    TRUE, content_lines)
                  ELSE ScanMd_every(Tail(lines), title, title_found,
                                    Append(content_lines, Head(lines))),
              strip(Head(lines)))

\* The loop of lines 100-106 over the remaining lines.
RECURSIVE ScanMd(_, _, _, _)
ScanMd(lines, title, title_found, content_lines) ==
    IF lines = <<>> THEN [title |-> title, content_lines |-> content_lines]
    ELSE Once(LAMBDA line_stripped :
                  IF ~title_found /\ startswith(line_stripped, <<"#", " ">>)
                  THEN ScanMd(Tail(lines),
                              strip(lstrip(line_stripped, {"#", " "})),
                              TRUE, content_lines)
                  ELSE ScanMd(Tail(lines), title, title_found,
                              Append(content_lines, Head(lines))),
              strip(Head(lines)))

\* The fallback title of line 97, a string literal kept as one token.
UNTITLED == <<"untitled">>

\* A faulty parse_md_file: without a heading line, the first line is taken
\* as the title and left out of the content.
parse_md_file_firstline(f) ==
    Once(LAMBDA r : IF r.title = UNTITLED /\ f.lines # <<>>
                    THEN <<strip(Head(f.lines)), Tail(f.lines)>>
                    ELSE <<r.title, r.content_lines>>,
         ScanMd(f.lines, UNTITLED, FALSE, <<>>))

\* parse_md_file(md_path) on a readable file: (title, content).  The content
\* is the output of markdown.markdown on the joined content lines; the
\* renderer is a library, so the content is represented by its input lines.
parse_md_file(f) ==
    Once(LAMBDA r : <<r.title, r.content_lines>>,
         ScanMd(f.lines, UNTITLED, FALSE, <<>>))

-----------------------------------------------------------------------------
(* get_year_folders                                                        *)

\* The loop of lines 17-20 over the listing, in listing order.
RECURSIVE KeepYears(_, _)
KeepYears(listing, top) ==
    IF listing = <<>> THEN <<>>
    ELSE LET name == Head(listing)
         IN  (IF top[name] = "dir" /\ isdigit(name) THEN <<name>> ELSE <<>>)
             \o KeepYears(Tail(listing), top)

\* get_year_folders(INPUT_DIR), listing being what os.listdir returned.
get_year_folders(listing, top) == sorted(KeepYears(listing, top), TRUE)

-----------------------------------------------------------------------------
(* generate_html: the part that depends on the aggregated data             *)

\* One tab button (lines 141-150) and one tab-content pane (lines 154-224).
TabButton(year, first, info) ==
    [year |-> year, active |-> (year = first), tab_name |-> info.tab_name]

TabContent(year, first, info) ==
    [year |-> year, hidden |-> (year # first), cards |-> info.cards,
     empty_state |-> (info.cards = <<>>)]

RECURSIVE SumCards(_, _)
SumCards(years, data) ==
    IF years = <<>> THEN 0
    ELSE Len(data[Head(years)].cards) + SumCards(Tail(years), data)

\* A faulty generate_html: a year without cards gets no tab.
generate_html_with_cards(keys, data, topics) ==
    LET yfs == SelectSeq(sorted(keys, TRUE), LAMBDA y : data[y].cards # <<>>)
    IN  IF yfs = <<>>
        THEN [ok |-> FALSE, tab_buttons |-> <<>>, tab_contents |-> <<>>,
              total_topics |-> 0, topic_areas |-> 0]
        ELSE [ok |-> TRUE,
              tab_buttons |->
                  [i \in 1..Len(yfs) |-> TabButton(yfs[i], yfs[1], data[yfs[i]])],
              tab_contents |->
                  [i \in 1..Len(yfs) |-> TabContent(yfs[i], yfs[1], data[yfs[i]])],
              total_topics |-> topics,
              topic_areas |-> SumCards(yfs, data)]

\* generate_html(year_data, total_topics); keys is the key order of the dict.
\* ok = FALSE stands for the ValueError of line 134.
generate_html(keys, data, topics) ==
    LET yfs == sorted(keys, TRUE)
    IN  IF yfs = <<>>
        THEN [ok |-> FALSE, tab_buttons |-> <<>>, tab_contents |-> <<>>,
              total_topics |-> 0, topic_areas |-> 0]
        ELSE [ok |-> TRUE,
              tab_buttons |->
                  [i \in 1..Len(yfs) |-> TabButton(yfs[i], yfs[1], data[yfs[i]])],
              tab_contents |->
                  [i \in 1..Len(yfs) |-> TabContent(yfs[i], yfs[1], data[yfs[i]])],
              total_topics |-> topics,
              topic_areas |-> SumCards(yfs, data)]

NoHtml ==
    [ok |-> FALSE, tab_buttons |-> <<>>, tab_contents |-> <<>>,
     total_topics |-> 0, topic_areas |-> 0]

-----------------------------------------------------------------------------
(* main: helpers                                                           *)

\* What os.scandir(year_folder) yields: the subfolders, and index.md when
\* the year has one.
YearEntries(y) ==
    [n \in DOMAIN fs.years[y].subs |-> "dir"]
    @@ (IF exists(fs.years[y].index) THEN (INDEX_MD :> "file") ELSE <<>>)

\* A faulty variant of lines 861-864: hidden directories are kept.
RECURSIVE KeepSubfolders_hidden(_, _)
KeepSubfolders_hidden(listing, entries) ==
    IF listing = <<>> THEN <<>>
    ELSE (IF entries[Head(listing)] = "dir" THEN <<Head(listing)>> ELSE <<>>)
         \o KeepSubfolders_hidden(Tail(listing), entries)

\* Lines 861-864 over the scandir listing, in listing order.
RECURSIVE KeepSubfolders(_, _)
KeepSubfolders(listing, entries) ==
    IF listing = <<>> THEN <<>>
    ELSE LET name == Head(listing)
         IN  (IF entries[name] = "dir" /\ ~startswith(name, <<".">>)
              THEN <<name>> ELSE <<>>)
             \o KeepSubfolders(Tail(listing), entries)

\* A faulty list.remove: the list is left as it was.
remove_nothing(s, x) == s

\* list.remove(x): the first occurrence removed.
RECURSIVE remove(_, _)
remove(s, x) ==
    IF s = <<>> THEN <<>>
    ELSE IF Head(s) = x THEN Tail(s)
    ELSE <<Head(s)>> \o remove(Tail(s), x)

\* A faulty variant of the loop of lines 869-874: it ends at the first
\* identifier that is not a subfolder.
RECURSIVE ResolveLoop_break(_, _, _, _, _)
ResolveLoop_break(rest, all, ordered, out, year_name) ==
    IF rest = <<>> THEN [all |-> all, ordered |-> ordered, out |-> out]
    ELSE LET sf == Head(rest)
         IN  IF sf \in Range(all)
             THEN ResolveLoop_break(Tail(rest), remove(all, sf),
                                    Append(ordered, sf), out, year_name)
             ELSE [all |-> all, ordered |-> ordered,
                   out |-> Append(out, Msg("subfolder_not_found", year_name, sf,
                                           "", <<>>, <<>>, 0))]

\* The loop of lines 869-874 over the rest of subfolder_order.
RECURSIVE ResolveLoop(_, _, _, _, _)
ResolveLoop(rest, all, ordered, out, year_name) ==
    IF rest = <<>> THEN [all |-> all, ordered |-> ordered, out |-> out]
    ELSE LET sf == Head(rest)
         IN  IF sf \in Range(all)
             THEN ResolveLoop(Tail(rest), remove(all, sf), Append(ordered, sf),
                              out, year_name)
             ELSE ResolveLoop(Tail(rest), all, ordered,
                              Append(out, Msg("subfolder_not_found", year_name, sf,
                                              "", <<>>, <<>>, 0)),
                              year_name)

\* A faulty variant of lines 867-876: the rest is appended as scanned.
ResolveOrdered_unsorted(subfolder_order, all, year_name) ==
    LET r == ResolveLoop(subfolder_order, all, <<>>, <<>>, year_name)
    IN  [all |-> r.all, ordered |-> r.ordered \o r.all, out |-> r.out]

\* Lines 867-876: the resolved order, the working list left, the warnings.
ResolveOrdered(subfolder_order, all, year_name) ==
    LET r == ResolveLoop(subfolder_order, all, <<>>, <<>>, year_name)
    IN  [all |-> r.all, ordered |-> r.ordered \o sorted(r.all, FALSE),
         out |-> r.out]

year_folder == year_folders[yi]
sf_name == ordered_subfolders[si]
SectionIndex == fs.years[year_folder].subs[sf_name]

-----------------------------------------------------------------------------
(* main: one action per step                                               *)

\* Lines 833-835: INPUT_DIR does not exist.
InputDirMissing ==
    /\ pc = "start"
    /\ fs.root = "absent"
    /\ stdout' = Append(stdout, Msg("input_dir_missing", <<>>, <<>>, "", <<>>, <<>>, 0))
    /\ pc' = "done"
    /\ UNCHANGED <<fs, year_folders, yi, year_data, total_topics, all_subfolders,
                   ordered_subfolders, si, html_content, output, card_from,
                   resolved>>

\* Line 833: INPUT_DIR exists.
InputDirExists ==
    /\ pc = "start"
    /\ fs.root # "absent"
    /\ pc' = "list"
    /\ UNCHANGED <<fs, year_folders, yi, year_data, total_topics, all_subfolders,
                   ordered_subfolders, si, stdout, html_content, output, card_from,
                   resolved>>

\* Line 838 when INPUT_DIR is not a directory: os.listdir raises
\* NotADirectoryError, nothing catches it, main ends with a traceback.
ListDirRaises ==
    /\ pc = "list"
    /\ fs.root = "file"
    /\ pc' = "crashed"
    /\ UNCHANGED <<fs, year_folders, yi, year_data, total_topics, all_subfolders,
                   ordered_subfolders, si, stdout, html_content, output, card_from,
                   resolved>>

\* Lines 838-845; os.listdir returns the entries in arbitrary order.
GetYearFolders ==
    /\ pc = "list"
    /\ fs.root = "dir"
    /\ \E listing \in Perms(DOMAIN fs.top) :
        \E yfs \in {get_year_folders(listing, fs.top)} :
            /\ year_folders' = yfs
            /\ IF yfs = <<>>
               THEN /\ stdout' = Append(stdout, Msg("no_year_folders", <<>>, <<>>,
                                                    "", <<>>, <<>>, 0))
                    /\ pc' = "done"
               ELSE /\ stdout' = stdout
                    /\ pc' = "year"
    /\ yi' = 1
    /\ UNCHANGED <<fs, year_data, total_topics, all_subfolders,
                   ordered_subfolders, si, html_content, output, card_from,
                   resolved>>

\* A faulty variant of lines 847-858: the exception of an unreadable
\* index.md is not caught and ends main.
BeginYear_raises ==
    /\ pc = "year"
    /\ yi <= Len(year_folders)
    /\ IF exists(fs.years[year_folder].index) /\ ~readable(fs.years[year_folder].index)
       THEN /\ pc' = "crashed"
            /\ UNCHANGED <<year_data, stdout, card_from>>
       ELSE \E r \in {parse_year_index(year_folder, fs.years[year_folder].index)} :
                /\ year_data' = (year_folder :> [tab_name |-> r.tab_name,
                                                 subfolder_order |-> r.subfolder_order,
                                                 cards |-> <<>>]) @@ year_data
                /\ stdout' = stdout \o r.out
                /\ card_from' = (year_folder :> <<>>) @@ card_from
                /\ pc' = "scan"
    /\ UNCHANGED <<fs, year_folders, yi, total_topics, all_subfolders,
                   ordered_subfolders, si, html_content, output, resolved>>

\* Lines 847-858: next year folder, its entry in year_data, parse_year_index.
BeginYear ==
    /\ pc = "year"
    /\ yi <= Len(year_folders)
    /\ \E r \in {parse_year_index(year_folder, fs.years[year_folder].index)} :
        /\ year_data' = (year_folder :> [tab_name |-> r.tab_name,
                                         subfolder_order |-> r.subfolder_order,
                                         cards |-> <<>>]) @@ year_data
        /\ stdout' = stdout \o r.out
    /\ card_from' = (year_folder :> <<>>) @@ card_from
    /\ pc' = "scan"
    /\ UNCHANGED <<fs, year_folders, yi, total_topics, all_subfolders,
                   ordered_subfolders, si, html_content, output,
                   resolved>>

\* Line 847: the year loop is exhausted.
EndYears ==
    /\ pc = "year"
    /\ yi > Len(year_folders)
    /\ pc' = "generate"
    /\ UNCHANGED <<fs, year_folders, yi, year_data, total_topics, all_subfolders,
                   ordered_subfolders, si, stdout, html_content, output, card_from,
                   resolved>>

\* A faulty variant of lines 861-864: a hidden directory is kept when the
\* year's index.md declares it.
ScanSubfolders_declared ==
    /\ pc = "scan"
    /\ \E listing \in Perms(DOMAIN YearEntries(year_folder)) :
        all_subfolders' =
            SelectSeq(KeepSubfolders_hidden(listing, YearEntries(year_folder)),
                      LAMBDA n : \/ ~startswith(n, <<".">>)
                                 \/ n \in Range(year_data[year_folder].subfolder_order))
    /\ pc' = "resolve"
    /\ UNCHANGED <<fs, year_folders, yi, year_data, total_topics,
                   ordered_subfolders, si, stdout, html_content, output, card_from,
                   resolved>>

\* Lines 861-864; os.scandir yields the entries in arbitrary order.
ScanSubfolders ==
    /\ pc = "scan"
    /\ \E listing \in Perms(DOMAIN YearEntries(year_folder)) :
        all_subfolders' = KeepSubfolders(listing, YearEntries(year_folder))
    /\ pc' = "resolve"
    /\ UNCHANGED <<fs, year_folders, yi, year_data, total_topics,
                   ordered_subfolders, si, stdout, html_content, output, card_from,
                   resolved>>

\* Lines 867-876.
ResolveOrder ==
    /\ pc = "resolve"
    /\ \E r \in {ResolveOrdered(year_data[year_folder].subfolder_order,
                                  all_subfolders, year_folder)} :
        /\ ordered_subfolders' = r.ordered
        /\ all_subfolders' = r.all
        /\ stdout' = stdout \o r.out
        /\ resolved' = (year_folder :> r.ordered) @@ resolved
    /\ si' = 1
    /\ pc' = "section"
    /\ UNCHANGED <<fs, year_folders, yi, year_data, total_topics,
                   html_content, output, card_from>>

\* Lines 879-886: the subfolder has no index.md.
SectionMissing ==
    /\ pc = "section"
    /\ si <= Len(ordered_subfolders)
    /\ ~exists(SectionIndex)
    /\ stdout' = Append(stdout, Msg("no_section_index", year_folder, sf_name, "",
                                    <<>>, <<>>, 0))
    /\ si' = si + 1
    /\ UNCHANGED <<fs, pc, year_folders, yi, year_data, total_topics,
                   all_subfolders, ordered_subfolders, html_content, output,
                   card_from,
                   resolved>>

\* Lines 889-897: parse_md_file returns; the card is appended, the topics
\* are counted.
SectionParsed ==
    /\ pc = "section"
    /\ si <= Len(ordered_subfolders)
    /\ exists(SectionIndex)
    /\ readable(SectionIndex)
    /\ \E card \in {parse_md_file(SectionIndex)},
          c \in {count_topics_in_md(SectionIndex)} :
        /\ year_data' = [year_data EXCEPT ![year_folder].cards = Append(@, card)]
        /\ total_topics' = total_topics + c.count
        /\ stdout' = stdout \o c.out
                     \o <<Msg("section_parsed", year_folder, sf_name, "",
                              card[1], <<>>, c.count)>>
    /\ card_from' = [card_from EXCEPT ![year_folder] = Append(@, sf_name)]
    /\ si' = si + 1
    /\ UNCHANGED <<fs, pc, year_folders, yi, all_subfolders, ordered_subfolders,
                   html_content, output,
                   resolved>>

\* A faulty variant of lines 889-899: the exception is not caught and ends
\* main.
SectionFailed_abort ==
    /\ pc = "section"
    /\ si <= Len(ordered_subfolders)
    /\ exists(SectionIndex)
    /\ ~readable(SectionIndex)
    /\ pc' = "crashed"
    /\ UNCHANGED <<fs, year_folders, yi, year_data, total_topics, all_subfolders,
                   ordered_subfolders, si, stdout, html_content, output,
                   card_from, resolved>>

\* Lines 889-899: parse_md_file raises; the except clause prints and the
\* loop goes on.
SectionFailed ==
    /\ pc = "section"
    /\ si <= Len(ordered_subfolders)
    /\ exists(SectionIndex)
    /\ ~readable(SectionIndex)
    /\ stdout' = Append(stdout, Msg("section_failed", year_folder, sf_name,
                                    open_error(SectionIndex), <<>>, <<>>, 0))
    /\ si' = si + 1
    /\ UNCHANGED <<fs, pc, year_folders, yi, year_data, total_topics,
                   all_subfolders, ordered_subfolders, html_content, output,
                   card_from,
                   resolved>>

\* Line 879: the section loop is exhausted; on to the next year.
EndSections ==
    /\ pc = "section"
    /\ si > Len(ordered_subfolders)
    /\ yi' = yi + 1
    /\ pc' = "year"
    /\ UNCHANGED <<fs, year_folders, year_data, total_topics, all_subfolders,
                   ordered_subfolders, si, stdout, html_content, output, card_from,
                   resolved>>

\* Lines 902-903 and 908-909: generate_html, whose ValueError is caught.
GenerateHtml ==
    /\ pc = "generate"
    /\ \E h \in {generate_html(year_folders, year_data, total_topics)} :
        /\ html_content' = h
        /\ IF h.ok
           THEN pc' = "write" /\ stdout' = stdout
           ELSE /\ pc' = "done"
                /\ stdout' = Append(stdout, Msg("generate_failed", <<>>, <<>>,
                                                "ValueError", <<>>, <<>>, 0))
    /\ UNCHANGED <<fs, year_folders, yi, year_data, total_topics, all_subfolders,
                   ordered_subfolders, si, output, card_from,
                   resolved>>

\* Lines 904-909: open(OUTPUT_HTML, "w") and f.write.  open may raise (the
\* file is left as it was); once open has truncated the file, write may raise
\* (the file is left truncated); otherwise the whole page is in the file.
WriteOutput ==
    /\ pc = "write"
    /\ \E outcome \in {"open_raises", "write_raises", "written"} :
        /\ output' = CASE outcome = "open_raises" -> output
                       [] outcome = "write_raises" -> "truncated"
                       [] outcome = "written" -> "complete"
        /\ stdout' = IF outcome = "written"
                     THEN stdout \o <<Msg("html_written", <<>>, <<>>, "", <<>>,
                                          <<>>, 0),
                                      Msg("statistics", <<>>, <<>>, "", <<>>, <<>>,
                                          total_topics)>>
                     ELSE Append(stdout, Msg("generate_failed", <<>>, <<>>,
                                             "OSError", <<>>, <<>>, 0))
    /\ pc' = "done"
    /\ UNCHANGED <<fs, year_folders, yi, year_data, total_topics, all_subfolders,
                   ordered_subfolders, si, html_content, card_from,
                   resolved>>

Next ==
    \/ InputDirMissing
    \/ InputDirExists
    \/ ListDirRaises
    \/ GetYearFolders
    \/ BeginYear
    \/ EndYears
    \/ ScanSubfolders
    \/ ResolveOrder
    \/ SectionMissing
    \/ SectionParsed
    \/ SectionFailed
    \/ EndSections
    \/ GenerateHtml
    \/ WriteOutput

-----------------------------------------------------------------------------
(* The input trees explored                                                *)

\* Largest number of lines of a year's index.md in OrderTrees.
MaxIndexLines == 3
\* Largest number of subfolders of one year folder.
MaxSubdirs == 3

SeqsUpTo(S, n) == UNION {[1..k -> S] : k \in 0..n}
SubsetsUpTo(S, n) == {N \in SUBSET S : Cardinality(N) <= n}

\* Lines of a year's index.md.
LineTitle == <<"#", " ", "T", "nl">>                               \* "# T"
LineA == <<"-", " ", "[", "x", "]", "(", "a", ")", "nl">>          \* "- [x](a)"
LineB == <<"-", "[", "y", "]", "(", " ", "b", " ", ")", "nl">>     \* "-[y]( b )"
LineZ == <<"-", " ", "[", "x", "]", "(", "z", "z", ")", "nl">>     \* "- [x](zz)"
LineHidden == <<" ", "-", " ", "[", "x", "]", "(", ".", "h", ")">> \* " - [x](.h)"

\* A section's index.md: a title, one topic, one line of text.
SectionDoc ==
    << LineTitle, <<"-", " ", "x", "nl">>, <<"x", "nl">> >>

\* Names of subfolders; "zz" is declared by LineZ but never exists.
SubNames == { <<"a">>, <<"a", "b">>, <<"b">>, <<".", "h">> }
RunSubNames == { <<"a">>, <<"b">> }

\* Names of year folders.
Y9 == <<"9">>
Y10 == <<"1", "0">>

SectionStates == {Absent, Unreadable("PermissionError"), File(SectionDoc)}

\* A root that is missing, or is a regular file.
RootTrees ==
    {[root |-> r, top |-> <<>>, years |-> <<>>] : r \in {"absent", "file"}}

\* One year folder; every index.md of up to MaxIndexLines list lines, every
\* set of up to MaxSubdirs subfolders, all subfolders in the same state.
OrderTrees ==
    {[root |-> "dir",
      top |-> (Y9 :> "dir"),
      years |-> (Y9 :> [index |-> File(doc), subs |-> [n \in N |-> st]])] :
        doc \in SeqsUpTo({LineA, LineB, LineZ, LineHidden}, MaxIndexLines),
        N \in SubsetsUpTo(SubNames, MaxSubdirs),
        st \in SectionStates}

\* Up to two year folders; each with one of four index.md states and any
\* set of subfolders a, b, every subfolder in any state.
RunYears ==
    {[index |-> ix, subs |-> sb] :
        ix \in {Absent, Unreadable("PermissionError"),
                Unreadable("UnicodeDecodeError"),
                File(<<LineTitle, LineB, LineZ>>)},
        sb \in UNION {[N -> SectionStates] : N \in SubsetsUpTo(RunSubNames, MaxSubdirs)}}

RunTrees ==
    {[root |-> "dir", top |-> [y \in DOMAIN ys |-> "dir"], years |-> ys] :
        ys \in UNION {[Y -> RunYears] : Y \in SUBSET {Y9, Y10}}}

\* Any root listing over four names, each entry a directory or a regular
\* file; the directories are empty.
TopNames == { Y9, Y10, <<"sup2">>, <<"9", "x">> }
EmptyYear == [index |-> Absent, subs |-> <<>>]

TopTrees ==
    {[root |-> "dir",
      top |-> t,
      years |-> [y \in {n \in DOMAIN t : t[n] = "dir"} |-> EmptyYear]] :
        t \in UNION {[E -> {"dir", "file"}] : E \in SUBSET TopNames}}

\* Largest number of lines of a section's index.md in DocTrees.
MaxMdLines == 3

\* More lines of index.md files.
LineHashTitle == <<" ", "#", " ", "#", "x", " ", "nl">>            \* " # #x "
LineNoSpace == <<"#", "T", "nl">>                                  \* "#T"
LineTopic == <<"-", " ", "x", "nl">>                               \* "- x"
LineText == <<" ", "x", "nl">>                                     \* " x"
LineALabel == <<"-", "[", "y", "y", "]", "(", "a", ")">>           \* "-[yy](a)"
LineEmptyTarget == <<"-", " ", "[", "x", "]", "(", " ", ")", "nl">> \* "- [x]( )"
LineNoDash == <<"[", "x", "]", "(", "b", ")", "nl">>               \* "[x](b)"

MdLines == {LineTitle, LineHashTitle, LineNoSpace, LineTopic, LineText}
YearLines ==
    {LineTitle, LineHashTitle, LineA, LineALabel, LineB, LineEmptyTarget,
     LineNoDash}

\* A section's index.md with two topic lines, one of them indented, and a
\* line that starts with a dash without a space.
TopicsDoc == <<LineTopic, LineHidden, LineB>>

\* One year folder with one subfolder a: either the year's index.md is any
\* document of up to MaxIndexLines lines of YearLines and the section's is
\* SectionDoc, or the year has no index.md and the section's index.md is
\* missing, unreadable or any document of up to MaxMdLines lines of MdLines.
\* Or two year folders without index.md: 9 with such a document in a and a
\* missing, unreadable or readable index.md in b, and 10 with SectionDoc in a.
DocTrees ==
    {[root |-> "dir",
      top |-> (Y9 :> "dir"),
      years |-> (Y9 :> [index |-> File(doc),
                        subs |-> (<<"a">> :> File(SectionDoc))])] :
        doc \in SeqsUpTo(YearLines, MaxIndexLines)}
    \cup
    {[root |-> "dir",
      top |-> (Y9 :> "dir"),
      years |-> (Y9 :> [index |-> Absent, subs |-> (<<"a">> :> st)])] :
        st \in {Absent, Unreadable("PermissionError")}
               \cup {File(doc) : doc \in SeqsUpTo(MdLines, MaxMdLines)}}
    \cup
    {[root |-> "dir",
      top |-> (Y9 :> "dir" @@ Y10 :> "dir"),
      years |-> (Y9 :> [index |-> Absent,
                        subs |-> (<<"a">> :> File(doc) @@ <<"b">> :> st)]
                 @@ Y10 :> [index |-> Absent,
                            subs |-> (<<"a">> :> File(SectionDoc))])] :
        doc \in SeqsUpTo(MdLines, MaxMdLines),
        st \in {Absent, Unreadable("PermissionError"), File(TopicsDoc)}}

Trees == RootTrees \cup OrderTrees \cup RunTrees \cup TopTrees

-----------------------------------------------------------------------------
(* Specification                                                           *)

\* The state when main is called, the input tree being one of T.
InitOn(T) ==
    /\ fs \in T
    /\ pc = "start"
    /\ year_folders = <<>>
    /\ yi = 1
    /\ year_data = <<>>
    /\ total_topics = 0
    /\ all_subfolders = <<>>
    /\ ordered_subfolders = <<>>
    /\ si = 1
    /\ stdout = <<>>
    /\ html_content = NoHtml
    /\ output = "untouched"
    /\ card_from = <<>>
    /\ resolved = <<>>

Init == InitOn(Trees)

Spec == Init /\ [][Next]_vars

\* main runs to its end, nothing suspends it: weak fairness of its steps.
\* The trees are those of up to two year folders, the root listings and the
\* missing root.
InitRun == InitOn(RootTrees \cup RunTrees \cup TopTrees)

FairSpec == InitRun /\ [][Next]_vars /\ WF_vars(Next)

\* main on the index.md documents of DocTrees.
InitDoc == InitOn(RootTrees \cup DocTrees)

DocSpec == InitDoc /\ [][Next]_vars

-----------------------------------------------------------------------------
(* Properties                                                              *)

\* The non-hidden subfolders a year folder really has.
Actual(y) == {n \in DOMAIN fs.years[y].subs : n[1] # "."}

\* The declared order parse_year_index returned for year y.
Declared(y) == year_data[y].subfolder_order

Keep(s, A) == SelectSeq(s, LAMBDA x : x \in A)
Drop(s, A) == SelectSeq(s, LAMBDA x : x \notin A)
IsAscending(s) == \A i \in 1..(Len(s) - 1) : StrLess(s[i], s[i + 1])
NoDuplicates(s) == \A i, j \in 1..Len(s) : s[i] = s[j] => i = j
Count(s, x) == Cardinality({i \in 1..Len(s) : s[i] = x})
IndexOf(s, x) == Min({i \in 1..Len(s) : s[i] = x})

A == <<"a">>
AB == <<"a", "b">>
B == <<"b">>
ZZ == <<"z", "z">>
HIDDEN == <<".", "h">>

C2_Permutation ==
    /\ \A y \in DOMAIN resolved :
        /\ Range(resolved[y]) = Actual(y)
        /\ Len(resolved[y]) = Cardinality(Actual(y))
    /\ \A y \in DOMAIN card_from :
        /\ NoDuplicates(card_from[y])
        /\ Len(year_data[y].cards) = Len(card_from[y])

\* Three subfolders, two of them declared, all three parsed into cards.
C2_Witness ==
    \E y \in DOMAIN resolved :
        /\ Len(resolved[y]) = 3
        /\ Cardinality(Range(Declared(y)) \cap Actual(y)) = 2
        /\ Len(card_from[y]) = 3

\* The link target each list line of the explored index.md files names
\* (empty for a line that is no list line), read off the line's text.
ListTarget(line) ==
    CASE line = LineA -> A
      [] line = LineB -> B
      [] line = LineZ -> ZZ
      [] line = LineHidden -> HIDDEN
      [] OTHER -> <<>>

\* The targets of the list lines of year y's index.md, one per line, in
\* file order.
Listed(y) ==
    LET ls == fs.years[y].index.lines
    IN  SelectSeq([i \in 1..Len(ls) |-> ListTarget(ls[i])], LAMBDA t : t # <<>>)

Repeated(y) == {t \in Range(Listed(y)) : Count(Listed(y), t) >= 2}

\* The declared order holds each listed identifier once, ordered by first
\* occurrence.
FirstOccurrences(y) ==
    LET d == Declared(y)
    IN  /\ NoDuplicates(d)
        /\ Range(d) = Range(Listed(y))
        /\ \A i, j \in 1..Len(d) :
            i < j => IndexOf(Listed(y), d[i]) < IndexOf(Listed(y), d[j])

\* The place an actual subfolder t has among the listed actual subfolders,
\* counted by first occurrence.
FirstPlace(y, t) ==
    Cardinality({u \in Actual(y) \cap Range(Listed(y)) :
                    IndexOf(Listed(y), u) <= IndexOf(Listed(y), t)})

\* C3 as stated: an identifier listed on several list lines is once in the
\* declared order, at its first occurrence, and once in the resolved order.
C3_AsStated ==
    \A y \in DOMAIN resolved :
        /\ FirstOccurrences(y)
        /\ \A t \in Repeated(y) :
            /\ Count(Declared(y), t) = 1
            /\ Count(resolved[y], t) = 1

\* C3, amended: an identifier listed on several list lines is once in the
\* declared order, at its first occurrence; the resolved order holds it
\* once, at its first declared place among the declared identifiers that
\* exist, when it names an actual non-hidden subfolder, and not at all
\* otherwise.
C3_FirstOccurrence ==
    \A y \in DOMAIN resolved :
        /\ FirstOccurrences(y)
        /\ \A t \in Repeated(y) :
            /\ Count(Declared(y), t) = 1
            /\ IF t \in Actual(y)
               THEN /\ Count(resolved[y], t) = 1
                    /\ IndexOf(resolved[y], t) = FirstPlace(y, t)
               ELSE Count(resolved[y], t) = 0

\* index.md lists b, a, b and both exist: b stays first.
C3_Witness ==
    \E y \in DOMAIN resolved :
        /\ Listed(y) = <<B, A, B>>
        /\ {A, B} \subseteq Actual(y)
        /\ resolved[y][1] = B
        /\ resolved[y][2] = A

\* C4: a declared identifier that is no actual non-hidden subfolder is not
\* in the resolved order and is named by a warning; the other declared
\* identifiers keep their declared order and every actual subfolder is still
\* placed.
C4_Dangling ==
    /\ \A y \in DOMAIN resolved :
        /\ \A t \in Range(Declared(y)) \ Actual(y) :
            /\ t \notin Range(resolved[y])
            /\ \E i \in 1..Len(stdout) :
                /\ stdout[i].msg = "subfolder_not_found"
                /\ stdout[i].year = y
                /\ stdout[i].sf = t
        /\ Keep(resolved[y], Range(Declared(y))) = Keep(Declared(y), Actual(y))
        /\ Actual(y) \subseteq Range(resolved[y])
    /\ \A i \in 1..Len(stdout) :
        stdout[i].msg = "subfolder_not_found"
            => stdout[i].sf \notin Actual(stdout[i].year)

\* A missing identifier is declared first, an existing one after it, and an
\* undeclared subfolder follows.
C4_Witness ==
    \E y \in DOMAIN resolved :
        /\ Len(Declared(y)) >= 2
        /\ Declared(y)[1] \notin Actual(y)
        /\ Declared(y)[2] \in Actual(y)
        /\ Len(resolved[y]) >= 2
        /\ resolved[y][1] = Declared(y)[2]

\* The state of the index.md of subfolder n of year y.
IndexOfSection(y, n) == fs.years[y].subs[n]

\* The part of year y's resolved order the section loop has gone through.
Processed(y) ==
    IF pc = "section" /\ year_folders[yi] = y
    THEN SubSeq(resolved[y], 1, si - 1)
    ELSE resolved[y]

Warned(m, y, n) ==
    \E i \in 1..Len(stdout) :
        stdout[i].msg = m /\ stdout[i].year = y /\ stdout[i].sf = n

\* The card of a subfolder whose index.md is SectionDoc: the title of its
\* heading line, and the two other lines as body.
SectionCard == << <<"T">>, << <<"-", " ", "x", "nl">>, <<"x", "nl">> >> >>

\* C5: a subfolder without index.md gives no card and is named, with its
\* year, by a warning; the cards of the other subfolders keep the order the
\* resolved order gives them, so the cards may be fewer than the resolved
\* order.
C5_MissingIndex ==
    \A y \in DOMAIN resolved :
        LET missing == {n \in DOMAIN fs.years[y].subs :
                            IndexOfSection(y, n).kind = "absent"}
        IN  /\ Range(card_from[y]) \cap missing = {}
            /\ \A n \in Range(Processed(y)) \cap missing :
                Warned("no_section_index", y, n)
            /\ Keep(Drop(Processed(y), missing), Range(card_from[y]))
                   = card_from[y]
            /\ Len(year_data[y].cards) <= Len(resolved[y])

\* The first subfolder of a year has no index.md and the next one is parsed.
C5_Witness ==
    \E y \in DOMAIN resolved :
        /\ Len(resolved[y]) = 2
        /\ IndexOfSection(y, resolved[y][1]).kind = "absent"
        /\ card_from[y] = <<resolved[y][2]>>

\* C6: every card of a year comes from an actual non-hidden subfolder of
\* that year whose index.md exists and was parsed, and the cards are in the
\* order of the resolved order.
C6_CardsFromParsed ==
    \A y \in DOMAIN card_from :
        /\ Len(year_data[y].cards) = Len(card_from[y])
        /\ \A i \in 1..Len(card_from[y]) :
            /\ card_from[y][i] \in Actual(y)
            /\ IndexOfSection(y, card_from[y][i]).kind = "file"
            /\ year_data[y].cards[i] = SectionCard
        /\ card_from[y] # <<>> =>
            /\ y \in DOMAIN resolved
            /\ Keep(resolved[y], Range(card_from[y])) = card_from[y]

\* A year with a hidden subfolder holding an index.md and two more
\* subfolders, both parsed.
C6_Witness ==
    \E y \in DOMAIN resolved :
        /\ HIDDEN \in DOMAIN fs.years[y].subs
        /\ IndexOfSection(y, HIDDEN).kind = "file"
        /\ Len(card_from[y]) = 2

\* C7: a section whose index.md cannot be read or parsed is skipped with a
\* warning and nothing else: the cards of every year are those of the
\* subfolders gone through whose index.md is readable, as if the failing
\* index.md were missing; main does not end there, and by the time the page
\* is generated every year and every section has been gone through.
C7_FailureIsolated ==
    /\ \A y \in DOMAIN resolved :
        LET asIfMissing(n) ==
                IF IndexOfSection(y, n).kind = "unreadable"
                THEN Absent ELSE IndexOfSection(y, n)
        IN  /\ card_from[y]
                   = SelectSeq(Processed(y), LAMBDA n : asIfMissing(n) # Absent)
            /\ year_data[y].cards = [i \in 1..Len(card_from[y]) |-> SectionCard]
            /\ \A n \in Range(Processed(y)) :
                IndexOfSection(y, n).kind = "unreadable" =>
                    \E i \in 1..Len(stdout) :
                        /\ stdout[i].msg = "section_failed"
                        /\ stdout[i].year = y
                        /\ stdout[i].sf = n
                        /\ stdout[i].detail = IndexOfSection(y, n).err
    /\ pc = "crashed" => year_folders = <<>>
    /\ pc \in {"generate", "write"} =>
        /\ DOMAIN resolved = Range(year_folders)
        /\ \A y \in DOMAIN resolved : Processed(y) = resolved[y]

\* The first section of the first year fails, its sibling and a section of
\* the next year are parsed.
C7_Witness ==
    /\ pc = "generate"
    /\ Len(year_folders) = 2
    /\ LET y1 == year_folders[1]
           y2 == year_folders[2]
       IN  /\ Len(resolved[y1]) = 2
           /\ IndexOfSection(y1, resolved[y1][1]).kind = "unreadable"
           /\ card_from[y1] = <<resolved[y1][2]>>
           /\ Len(card_from[y2]) >= 1

\* The root is a directory holding a directory named by decimal digits only.
DecimalName(n) == n # <<>> /\ \A i \in 1..Len(n) : n[i] \in DecimalDigits
RootHasYear ==
    /\ fs.root = "dir"
    /\ \E n \in DOMAIN fs.top : fs.top[n] = "dir" /\ DecimalName(n)

Printed(m) == \E i \in 1..Len(stdout) : stdout[i].msg = m

\* C8: when the root is a directory holding a pure-digit directory, main
\* reaches the writing of the output file, whatever index.md files are
\* missing or unreadable and whatever declared entries are dangling.
C8_ReachesWrite == RootHasYear => <>(pc = "write")

\* The output is about to be written after an unreadable year index.md, a
\* dangling declared entry, a missing and an unreadable section index.md.
C8_Witness ==
    /\ pc = "write"
    /\ Printed("year_index_failed")
    /\ Printed("subfolder_not_found")
    /\ Printed("no_section_index")
    /\ Printed("section_failed")

\* C9: a year index.md that exists but cannot be read does not end main;
\* parse_year_index returns what it returns for a missing file, the folder
\* name and an empty declared order, and prints a warning with the error.
C9_UnreadableYearIndex ==
    /\ \A y \in DOMAIN year_data :
        /\ fs.years[y].index.kind \in {"absent", "unreadable"} =>
            /\ year_data[y].tab_name = y
            /\ year_data[y].subfolder_order = <<>>
        /\ fs.years[y].index.kind = "unreadable" =>
            \E i \in 1..Len(stdout) :
                /\ stdout[i].msg = "year_index_failed"
                /\ stdout[i].year = y
                /\ stdout[i].detail = fs.years[y].index.err
    /\ pc = "crashed" => year_folders = <<>>
    /\ pc \in {"scan", "resolve", "section"} => year_folders[yi] \in DOMAIN year_data

\* A year whose index.md raised UnicodeDecodeError has had its subfolders
\* resolved, next to a year without index.md.
C9_Witness ==
    \E y, z \in DOMAIN resolved :
        /\ fs.years[y].index = Unreadable("UnicodeDecodeError")
        /\ fs.years[z].index = Absent
        /\ year_data[y].subfolder_order = year_data[z].subfolder_order
        /\ Len(resolved[y]) = 2

\* C10 as stated: get_year_folders returns exactly the directories of the
\* root whose name consists of decimal digits only, in descending
\* lexicographic order.
C10_AsStated ==
    (fs.root = "dir" /\ pc \notin {"start", "list"}) =>
        /\ Range(year_folders)
               = {n \in DOMAIN fs.top : fs.top[n] = "dir" /\ DecimalName(n)}
        /\ \A i \in 1..(Len(year_folders) - 1) :
            StrLess(year_folders[i + 1], year_folders[i])

\* The number a name of decimal digits denotes.
DigitValue(c) ==
    CASE c = "0" -> 0 [] c = "1" -> 1 [] c = "7" -> 7 [] c = "9" -> 9

RECURSIVE NumValue(_)
NumValue(n) ==
    IF n = <<>> THEN 0
    ELSE 10 * NumValue(SubSeq(n, 1, Len(n) - 1)) + DigitValue(n[Len(n)])

\* C11 as stated: when every collected year folder has a name of decimal
\* digits, the collected order is descending by string comparison and also
\* descending by the numbers the names denote, so the first year is the
\* numerically largest.
C11_AsStated ==
    (pc \notin {"start", "list"}
        /\ \A i \in 1..Len(year_folders) : DecimalName(year_folders[i])) =>
        \A i \in 1..(Len(year_folders) - 1) :
            /\ StrLess(year_folders[i + 1], year_folders[i])
            /\ NumValue(year_folders[i + 1]) < NumValue(year_folders[i])

\* The lines of the index.md the i-th card of year y was parsed from.
CardDoc(y, i) == fs.years[y].subs[card_from[y][i]].lines
CardTitle(y, i) == year_data[y].cards[i][1]
CardBody(y, i) == year_data[y].cards[i][2]

\* The explored lines that, trimmed, start with the heading marker "# ", and
\* the places a document has them.
HeadingLines == {LineTitle, LineHashTitle}
HeadingAt(doc) == {i \in 1..Len(doc) : doc[i] \in HeadingLines}
RemoveAt(s, i) == SubSeq(s, 1, i - 1) \o SubSeq(s, i + 1, Len(s))

\* C12: a section document without a level-1 heading line gives the
\* fallback title, and its body is the whole document, every line in its
\* original order.
C12_NoHeading ==
    \A y \in DOMAIN year_data : \A i \in 1..Len(year_data[y].cards) :
        HeadingAt(CardDoc(y, i)) = {} =>
            /\ CardTitle(y, i) = UNTITLED
            /\ CardBody(y, i) = CardDoc(y, i)

\* A card was made from "#T", "- x", " x": no line is a heading line.
C12_Witness ==
    \E y \in DOMAIN year_data : \E i \in 1..Len(year_data[y].cards) :
        /\ CardDoc(y, i) = <<LineNoSpace, LineTopic, LineText>>
        /\ CardTitle(y, i) = UNTITLED

\* C13: the body of a section document with a level-1 heading line is the
\* document without its first heading line, the other lines in their
\* original order: the lines before it stay, a later heading line stays and
\* does not become the title.
C13_FirstHeadingRemoved ==
    \A y \in DOMAIN year_data : \A i \in 1..Len(year_data[y].cards) :
        LET doc == CardDoc(y, i)
        IN  HeadingAt(doc) # {} =>
                /\ CardBody(y, i) = RemoveAt(doc, Min(HeadingAt(doc)))
                /\ doc[Min(HeadingAt(doc))] = LineTitle =>
                       CardTitle(y, i) = <<"T">>
                /\ doc[Min(HeadingAt(doc))] # LineTitle =>
                       CardTitle(y, i) # <<"T">>

\* A card was made from " x", "# T", " # #x ": the body keeps the line
\* before the heading and the second heading line.
C13_Witness ==
    \E y \in DOMAIN year_data : \E i \in 1..Len(year_data[y].cards) :
        /\ CardDoc(y, i) = <<LineText, LineTitle, LineHashTitle>>
        /\ CardBody(y, i) = <<LineText, LineHashTitle>>

\* The text of the explored heading lines: the line without the heading
\* marker "# " and without the whitespace around it.
HeadingText(line) ==
    CASE line = LineTitle -> <<"T">>
      [] line = LineHashTitle -> <<"#", "x">>

\* The lines of year y's index.md.
YearDoc(y) == fs.years[y].index.lines

\* C14 as stated: the title of a card, and the display name of a year, is
\* the text of the first level-1 heading line of the index.md, no character
\* of the text dropped, also when the text begins with '#'.
C14_AsStated ==
    /\ \A y \in DOMAIN year_data : \A i \in 1..Len(year_data[y].cards) :
        LET doc == CardDoc(y, i)
        IN  HeadingAt(doc) # {} =>
                CardTitle(y, i) = HeadingText(doc[Min(HeadingAt(doc))])
    /\ \A y \in DOMAIN year_data :
        HeadingAt(YearDoc(y)) # {} =>
            year_data[y].tab_name
                = HeadingText(YearDoc(y)[Min(HeadingAt(YearDoc(y)))])

\* C15 as stated: the display name of a year with a readable index.md is
\* the text of the first level-1 heading line, whatever heading lines
\* follow; without such a line, and without index.md, it is the name of the
\* year folder; without index.md the declared order is empty and a notice
\* naming the year is printed.
C15_AsStated ==
    \A y \in DOMAIN year_data :
        LET f == fs.years[y].index
        IN  /\ (f.kind = "file" /\ HeadingAt(f.lines) # {}) =>
                   year_data[y].tab_name
                       = HeadingText(f.lines[Min(HeadingAt(f.lines))])
            /\ (f.kind = "file" /\ HeadingAt(f.lines) = {}) =>
                   year_data[y].tab_name = y
            /\ f.kind = "absent" =>
                   /\ year_data[y].tab_name = y
                   /\ year_data[y].subfolder_order = <<>>
                   /\ \E i \in 1..Len(stdout) :
                       stdout[i].msg = "no_year_index" /\ stdout[i].year = y

\* The explored lines that match the list-item pattern, and the trimmed
\* text between the parentheses of each.
ListLines == {LineA, LineALabel, LineB, LineZ, LineHidden, LineEmptyTarget}
TargetOf(line) ==
    CASE line = LineA -> A
      [] line = LineALabel -> A
      [] line = LineB -> B
      [] line = LineZ -> ZZ
      [] line = LineHidden -> HIDDEN
      [] line = LineEmptyTarget -> <<>>

\* The trimmed targets of the list lines of a document, in file order.
Targets(doc) ==
    LET ls == SelectSeq(doc, LAMBDA l : l \in ListLines)
    IN  [i \in 1..Len(ls) |-> TargetOf(ls[i])]

\* d holds every element of l once, ordered by first occurrence in l.
IsFirstOccurrences(d, l) ==
    /\ NoDuplicates(d)
    /\ Range(d) = Range(l)
    /\ \A i, j \in 1..Len(d) : i < j => IndexOf(l, d[i]) < IndexOf(l, d[j])

\* C16 as stated: the declared order of a readable year index.md holds the
\* trimmed target of every line matching the list-item pattern, before or
\* after the heading line, the empty target included, whatever the label.
C16_AsStated ==
    \A y \in DOMAIN year_data :
        fs.years[y].index.kind = "file" =>
            IsFirstOccurrences(Declared(y), Targets(YearDoc(y)))

\* C16, amended: the declared order of a readable year index.md holds the
\* trimmed target of every line matching the list-item pattern, before or
\* after the heading line, whatever the label, when that target is not
\* empty; a list line whose target is empty after trimming adds nothing.
C16_NonEmptyTargets ==
    \A y \in DOMAIN year_data :
        fs.years[y].index.kind = "file" =>
            IsFirstOccurrences(Declared(y),
                               SelectSeq(Targets(YearDoc(y)),
                                         LAMBDA t : t # <<>>))

\* index.md is "-[y]( b )", "- [x]( )", "-[yy](a)": the declared order is
\* b, a.
C16_Witness ==
    \E y \in DOMAIN year_data :
        /\ YearDoc(y) = <<LineB, LineEmptyTarget, LineALabel>>
        /\ Declared(y) = <<B, A>>

\* C17: a subfolder whose name starts with '.' is never in the working list,
\* in the resolved order or among the subfolders that gave a card, also when
\* the year's index.md declares it and it holds a readable index.md; when
\* declared, it is named by the warning given for a declared entry that does
\* not exist.
C17_HiddenSkipped ==
    /\ \A i \in 1..Len(all_subfolders) : all_subfolders[i][1] # "."
    /\ \A y \in DOMAIN resolved :
        \A n \in DOMAIN fs.years[y].subs :
            n[1] = "." =>
                /\ n \notin Range(resolved[y])
                /\ n \notin Range(card_from[y])
                /\ n \in Range(Declared(y)) =>
                       Warned("subfolder_not_found", y, n)

\* The year's sections are done: .h exists with a readable index.md and is
\* declared, a came after it in the declared order and gave the only card.
C17_Witness ==
    \E y \in DOMAIN resolved :
        /\ pc = "year"
        /\ DOMAIN fs.years[y].subs = {HIDDEN, A}
        /\ IndexOfSection(y, HIDDEN) = File(SectionDoc)
        /\ Declared(y) = <<HIDDEN, A>>
        /\ resolved[y] = <<A>>
        /\ card_from[y] = <<A>>
        /\ Warned("subfolder_not_found", y, HIDDEN)

\* The root is missing, is no directory, or holds no directory named by
\* decimal digits only.
NoYearInput ==
    \/ fs.root \in {"absent", "file"}
    \/ \A n \in DOMAIN fs.top : ~(fs.top[n] = "dir" /\ DecimalName(n))

\* C18 as stated: when the root is missing, is no directory, or holds no
\* pure-digit directory, no year is processed, the output file is never
\* created or written, and the run ends reported as failed: by the message
\* of line 834 or of line 840, or by the traceback of the uncaught error.
C18_AsStated ==
    NoYearInput =>
        /\ year_data = <<>>
        /\ output = "untouched"
        /\ pc \in {"start", "list", "done", "crashed"}
        /\ pc = "done" =>
               \/ Printed("input_dir_missing")
               \/ Printed("no_year_folders")

\* C19 as stated: the output file is touched only by the one write step of
\* a run, after every year folder was aggregated and the page generated, and
\* it is never left truncated or partly written: it is either as it was
\* before the run or holds the complete page.
C19_AsStated ==
    /\ output \in {"untouched", "complete"}
    /\ output # "untouched" =>
           /\ pc = "done"
           /\ html_content.ok
           /\ yi > Len(year_folders)
           /\ Range(year_folders) = DOMAIN year_data

\* C20: the generated page has one tab button and one content pane for every
\* aggregated year, a year without cards included, both in the descending
\* order of the folder names; exactly one button is active and exactly one
\* pane is not hidden, and both are those of the first year of that order.
C20_OneActiveTab ==
    html_content.ok =>
        LET bs == html_content.tab_buttons
            cs == html_content.tab_contents
        IN  /\ DOMAIN year_data # {}
            /\ Len(bs) = Cardinality(DOMAIN year_data)
            /\ Len(cs) = Len(bs)
            /\ {bs[i].year : i \in 1..Len(bs)} = DOMAIN year_data
            /\ \A i \in 1..Len(bs) :
                /\ bs[i].year = year_folders[i]
                /\ cs[i].year = year_folders[i]
                /\ bs[i].tab_name = year_data[bs[i].year].tab_name
                /\ cs[i].cards = year_data[cs[i].year].cards
            /\ \A i \in 1..(Len(bs) - 1) : StrLess(bs[i + 1].year, bs[i].year)
            /\ {i \in 1..Len(bs) : bs[i].active} = {1}
            /\ {i \in 1..Len(cs) : ~cs[i].hidden} = {1}

\* The page was generated for the years 9 and 10: year 9 is first and active
\* and has no card, year 10 has a card and is hidden.
C20_Witness ==
    /\ html_content.ok
    /\ Len(html_content.tab_buttons) = 2
    /\ html_content.tab_buttons[1].year = Y9
    /\ html_content.tab_buttons[1].active
    /\ html_content.tab_contents[1].cards = <<>>
    /\ html_content.tab_contents[2].year = Y10
    /\ html_content.tab_contents[2].hidden
    /\ html_content.tab_contents[2].cards # <<>>

\* The explored lines that, trimmed, start with "- ", and how many of them a
\* document has.
TopicLines == {LineTopic, LineA, LineZ, LineHidden, LineEmptyTarget}
Topics(doc) == Cardinality({i \in 1..Len(doc) : doc[i] \in TopicLines})

\* The topic lines of the documents the first i cards of year y came from.
RECURSIVE TopicsOfCards(_, _)
TopicsOfCards(y, i) ==
    IF i = 0 THEN 0 ELSE TopicsOfCards(y, i - 1) + Topics(CardDoc(y, i))

\* The topic lines behind all cards, and the number of cards, of the years
\* ys.
RECURSIVE TopicsOfYears(_)
TopicsOfYears(ys) ==
    IF ys = <<>> THEN 0
    ELSE TopicsOfCards(Head(ys), Len(card_from[Head(ys)])) + TopicsOfYears(Tail(ys))

RECURSIVE CardsOfYears(_)
CardsOfYears(ys) ==
    IF ys = <<>> THEN 0
    ELSE Len(year_data[Head(ys)].cards) + CardsOfYears(Tail(ys))

Aggregated == SelectSeq(year_folders, LAMBDA y : y \in DOMAIN year_data)

\* C21: total_topics is the number of lines that, trimmed, start with "- "
\* in the index.md of exactly the sections that gave a card; a section
\* skipped for a missing or unreadable index.md gave no card and adds
\* nothing; the page shows that total, and as topic areas the number of
\* cards of all years.
C21_TotalTopics ==
    /\ \A y \in DOMAIN year_data :
        /\ Len(card_from[y]) = Len(year_data[y].cards)
        /\ \A i \in 1..Len(card_from[y]) :
            IndexOfSection(y, card_from[y][i]).kind = "file"
    /\ total_topics = TopicsOfYears(Aggregated)
    /\ html_content.ok =>
           /\ html_content.total_topics = TopicsOfYears(Aggregated)
           /\ html_content.topic_areas = CardsOfYears(Aggregated)

\* The page was generated: in year 9, a has two topic lines and b an
\* unreadable index.md, year 10 has one section with one topic line; three
\* topics, two cards.
C21_Witness ==
    /\ html_content.ok
    /\ DOMAIN year_data = {Y9, Y10}
    /\ IndexOfSection(Y9, A) = File(<<LineTopic, LineText, LineTopic>>)
    /\ IndexOfSection(Y9, B).kind = "unreadable"
    /\ total_topics = 3
    /\ html_content.topic_areas = 2

====
